---- MODULE Spec2Model ----
(***************************************************************************)
(* Model of src/tools.py: the StringGrid class, find_grid_item, swipe,     *)
(* look and select.                                                        *)
(*                                                                         *)
(* A Python str is modelled as a sequence of one-character strings, so the *)
(* grid text "X.\n.." is << "X", ".", "\n", ".", "." >> and splitlines /   *)
(* join are real conversions.  A Python return value is a record           *)
(*   [kind, str, tup, exc] with kind in                                    *)
(*   "none" (None), "str", "tuple", "raise" (an exception propagates).     *)
(***************************************************************************)
EXTENDS Integers, Sequences, FiniteSets, TLC

\* ---------------------------------------------------------------- bounds
MaxW == 2
MaxH == 2
MaxPath == 2
MaxSeqLen == 2
MaxMoves == 2

\* ------------------------------------------------------------ input sets
NL == "\n"
CellChars == {"X", "."}
SearchChars == {"X", ".", "q"}
FillChars == {"."}
Directions == {"left", "right", "up", "down", "LEFT", "Right", "UP", "dOwN", "north"}
Letters == {"U", "D", "L", "R", "Z"}

\* ------------------------------------------------------- Python values
None == [kind |-> "none", str |-> <<>>, tup |-> <<>>, exc |-> ""]
Str(s) == [kind |-> "str", str |-> s, tup |-> <<>>, exc |-> ""]
Tuple(a, b) == [kind |-> "tuple", str |-> <<>>, tup |-> <<a, b>>, exc |-> ""]
Raise(e) == [kind |-> "raise", str |-> <<>>, tup |-> <<>>, exc |-> e]
OOB == Str(<<"O", "O", "B">>)

\* Python sequence indexing s[i]: negative indices count from the end.
PyIndexOK(s, i) == i >= 0 - Len(s) /\ i < Len(s)
PyPos(s, i) == IF i >= 0 THEN i + 1 ELSE Len(s) + i + 1
PyGet(s, i) == s[PyPos(s, i)]
\* Python list item assignment s[i] = v.
PySet(s, i, v) == [s EXCEPT ![PyPos(s, i)] = v]

\* str.splitlines() for the "\n" separator: a trailing newline adds no row.
RECURSIVE FirstNL(_, _)
FirstNL(t, i) ==
    IF i > Len(t) THEN 0
    ELSE IF t[i] = NL THEN i
    ELSE FirstNL(t, i + 1)

RECURSIVE SplitLines(_)
SplitLines(t) ==
    IF t = <<>> THEN <<>>
    ELSE LET k == FirstNL(t, 1) IN
         IF k = 0 THEN <<t>>
         ELSE <<SubSeq(t, 1, k - 1)>> \o SplitLines(SubSeq(t, k + 1, Len(t)))

\* A faulty variant of Join: the rows are concatenated without the separator.
RECURSIVE JoinNoSep(_)
JoinNoSep(rows) ==
    IF rows = <<>> THEN <<>>
    ELSE Head(rows) \o JoinNoSep(Tail(rows))

\* "\n".join("".join(row) for row in rx)
RECURSIVE Join(_)
Join(rows) ==
    IF rows = <<>> THEN <<>>
    ELSE IF Len(rows) = 1 THEN Head(rows)
    ELSE Head(rows) \o <<NL>> \o Join(Tail(rows))

\* Decimal text of a natural number, as str() and an f-string format it.
Digits == <<"0", "1", "2", "3", "4", "5", "6", "7", "8", "9">>

RECURSIVE StrOfNat(_)
StrOfNat(n) ==
    IF n < 10 THEN <<Digits[n + 1]>>
    ELSE StrOfNat(n \div 10) \o <<Digits[(n % 10) + 1]>>

\* int() of a decimal text.
DigitValue(c) == CHOOSE v \in 0..9 : Digits[v + 1] = c

RECURSIVE NatOfStr(_)
NatOfStr(t) ==
    IF Len(t) = 1 THEN DigitValue(t[1])
    ELSE 10 * NatOfStr(SubSeq(t, 1, Len(t) - 1)) + DigitValue(t[Len(t)])

\* The position of the first "x" of a text, as split("x") cuts it.
RECURSIVE FirstX(_, _)
FirstX(t, i) ==
    IF t[i] = "x" THEN i
    ELSE FirstX(t, i + 1)

\* str.lower() on the direction words used as input.
Lower(d) ==
    CASE d = "LEFT" -> "left"
      [] d = "Right" -> "right"
      [] d = "UP" -> "up"
      [] d = "dOwN" -> "down"
      [] OTHER -> d

\* ------------------------------------------------------------------ state
VARIABLES
    grid,       \* StringGrid.grid: the text
    width,      \* StringGrid.width
    height,     \* StringGrid.height
    call,       \* the last call made on the grid and its arguments
    ret,        \* what that call returned or raised
    pc,         \* "idle", or "look" while look walks its path
    ch,         \* look: the coordinate list [col, row]
    rest,       \* look: the letters of lookwhere still to process
    width0,     \* width of the grid first constructed
    height0,    \* height of the grid first constructed
    moves,      \* number of swipe results re-wrapped so far (saturating)
    sx,         \* select: the sequence argument x
    smask,      \* select: the matches argument as passed
    matches,    \* select: the caller's matches list after the call
    sret        \* select: the value returned or raised

gridvars == <<grid, width, height, call, ret, pc, ch, rest, width0, height0, moves>>
selvars == <<sx, smask, matches, sret>>
vars == <<grid, width, height, call, ret, pc, ch, rest, width0, height0, moves,
          sx, smask, matches, sret>>

self == [grid |-> grid, width |-> width, height |-> height]

NoCall == [op |-> "none", c |-> "", d |-> "", path |-> <<>>, x |-> 0, y |-> 0, fill |-> ""]

\* ------------------------------------------------------------- StringGrid
\* StringGrid.__init__: width from the first row, height from the row count.
InitWidth(text) == Len(SplitLines(text)[1])
InitHeight(text) == Len(SplitLines(text))

\* StringGrid.grab(x, y) == self.grid.splitlines()[y][x]
grab(g, x, y) ==
    LET rows == SplitLines(g.grid) IN
    IF ~PyIndexOK(rows, y) THEN Raise("IndexError")
    ELSE IF ~PyIndexOK(PyGet(rows, y), x) THEN Raise("IndexError")
    ELSE Str(<<PyGet(PyGet(rows, y), x)>>)

\* A faulty variant of FindFrom: the coordinate is returned as (row, column).
RECURSIVE FindFromSwapped(_, _, _, _)
FindFromSwapped(g, item, x2, y) ==
    IF y >= g.height THEN None
    ELSE IF x2 >= g.width THEN FindFromSwapped(g, item, 0, y + 1)
    ELSE LET c == grab(g, x2, y) IN
         IF c.kind = "raise" THEN c
         ELSE IF c.str = <<item>> THEN Tuple(y, x2)
         ELSE FindFromSwapped(g, item, x2 + 1, y)

\* find_grid_item: for y in range(height): for x2 in range(width): ...
RECURSIVE FindFrom(_, _, _, _)
FindFrom(g, item, x2, y) ==
    IF y >= g.height THEN None
    ELSE IF x2 >= g.width THEN FindFrom(g, item, 0, y + 1)
    ELSE LET c == grab(g, x2, y) IN
         IF c.kind = "raise" THEN c
         ELSE IF c.str = <<item>> THEN Tuple(x2, y)
         ELSE FindFrom(g, item, x2 + 1, y)

find_grid_item(g, item) == FindFrom(g, item, 0, 0)

\* bounds(x): the text f"{x.width}x{x.height}"
bounds(g) == StrOfNat(g.width) \o <<"x">> \o StrOfNat(g.height)

\* swipe, line 91: map(int, bounds(x).split("x"))
parseBounds(t) ==
    <<NatOfStr(SubSeq(t, 1, FirstX(t, 1) - 1)), NatOfStr(SubSeq(t, FirstX(t, 1) + 1, Len(t)))>>

directs(d) ==
    CASE d = "left" -> -1
      [] d = "right" -> 1
      [] d = "up" -> -1
      [] d = "down" -> 1

\* swipe(x, character, direction, blankness)
swipe(g, character, direction, blankness) ==
    LET rx == SplitLines(g.grid)
        dir == Lower(direction)
        item == find_grid_item(g, character)
        w == parseBounds(bounds(g))[1]
        h == parseBounds(bounds(g))[2]
        dx == IF dir \in {"left", "right"} THEN directs(dir) ELSE 0
        dy == IF dir \in {"left", "right"} THEN 0 ELSE directs(dir)
    IN
    IF item.kind = "raise" THEN item
    ELSE IF dir \notin {"left", "right", "up", "down"} THEN Raise("KeyError")
    ELSE IF item.kind = "none" THEN Raise("TypeError")
    ELSE LET new_x == item.tup[1] + dy
             new_y == item.tup[2] + dx
         IN
         IF new_x < 0 \/ new_x >= h \/ new_y < 0 \/ new_y >= w THEN OOB
         ELSE IF ~PyIndexOK(rx, new_x) THEN Raise("IndexError")
         ELSE IF ~PyIndexOK(PyGet(rx, new_x), new_y) THEN Raise("IndexError")
         ELSE LET rx1 == PySet(rx, new_x, PySet(PyGet(rx, new_x), new_y, character)) IN
              IF ~PyIndexOK(rx1, item.tup[1]) THEN Raise("IndexError")
              ELSE IF ~PyIndexOK(PyGet(rx1, item.tup[1]), item.tup[2]) THEN Raise("IndexError")
              ELSE Str(Join(PySet(rx1, item.tup[1],
                                  PySet(PyGet(rx1, item.tup[1]), item.tup[2], blankness))))

\* A faulty variant of step: the coordinate is clamped at the grid's low edge.
stepClamped(c, letter) ==
    CASE letter = "U" -> <<c[1], IF c[2] > 0 THEN c[2] - 1 ELSE 0>>
      [] letter = "D" -> <<c[1], c[2] + 1>>
      [] letter = "L" -> <<IF c[1] > 0 THEN c[1] - 1 ELSE 0, c[2]>>
      [] letter = "R" -> <<c[1] + 1, c[2]>>

\* look: one letter of the path moves the coordinate list ch.
step(c, letter) ==
    CASE letter = "U" -> <<c[1], c[2] - 1>>
      [] letter = "D" -> <<c[1], c[2] + 1>>
      [] letter = "L" -> <<c[1] - 1, c[2]>>
      [] letter = "R" -> <<c[1] + 1, c[2]>>

\* look: the check and the read made once the path is consumed.
lookResult(g, c) ==
    IF c[1] < 0 \/ c[1] > g.width \/ c[2] < 0 \/ c[2] > g.height THEN OOB
    ELSE grab(g, c[1], c[2])

\* ------------------------------------------------------------------ select
\* An element of a sequence handed to select: a Python value with its type.
PyInt(n) == [type |-> "int", n |-> n, s |-> <<>>]
PyBool(b) == [type |-> "bool", n |-> IF b THEN 1 ELSE 0, s |-> <<>>]
PyChr(c) == [type |-> "str", n |-> 0, s |-> <<c>>]

\* str(item), as a sequence of characters
str(v) ==
    CASE v.type = "str" -> v.s
      [] v.type = "bool" -> IF v.n = 1 THEN <<"T", "r", "u", "e">> ELSE <<"F", "a", "l", "s", "e">>
      [] v.type = "int" -> IF v.n < 0 THEN <<"-">> \o StrOfNat(0 - v.n) ELSE StrOfNat(v.n)

\* int(item) for a flag of the mask
int(v) == PyInt(v.n)

\* list(p) for a text p: its characters
RECURSIVE Chars(_)
Chars(t) ==
    IF t = <<>> THEN <<>>
    ELSE <<PyChr(Head(t))>> \o Chars(Tail(t))

SelNoCall == [kind |-> "nocall", items |-> <<>>, exc |-> ""]
SelValue(k, items) == [kind |-> k, items |-> items, exc |-> ""]
\* an exception instance handed back by a return statement
SelExcValue(e) == [kind |-> "exception_value", items |-> <<>>, exc |-> e]
SelRaise(e) == [kind |-> "raise", items |-> <<>>, exc |-> e]

\* select, lines 169-170: the mask is converted in place.
maskAfter(x, m) ==
    IF Len(m) = Len(x.items) THEN [i \in 1..Len(m) |-> int(m[i])] ELSE m

\* select, lines 171-173: p += str(item) for every index whose flag is >= 1
RECURSIVE Collect(_, _, _)
Collect(items, m, index) ==
    IF index > Len(items) THEN <<>>
    ELSE (IF m[index].n >= 1 THEN str(items[index]) ELSE <<>>) \o Collect(items, m, index + 1)

\* select(x, matches): the value returned
select(x, m) ==
    IF Len(m) = Len(x.items)
    THEN LET m1 == maskAfter(x, m)
             p == Chars(Collect(x.items, m1, 1))
         IN
         IF x.kind = "str" THEN SelValue("str", p)
         ELSE SelValue("list",
                       [index \in 1..Len(p) |->
                           IF index <= Len(x.items) THEN x.items[index] ELSE p[index]])
    ELSE SelExcValue("IndexError")

\* ---------------------------------------------------------- initial state
RECURSIVE SeqsUpTo(_, _)
SeqsUpTo(S, n) ==
    IF n = 0 THEN {<<>>}
    ELSE LET prev == SeqsUpTo(S, n - 1) IN
         prev \cup {Append(s, e) : s \in {p \in prev : Len(p) = n - 1}, e \in S}

\* The text of a w-by-h grid: rows of w cells separated by newlines.
RectTexts ==
    UNION {{[i \in 1..(h * (w + 1) - 1) |-> IF i % (w + 1) = 0 THEN NL ELSE f[i]] :
              f \in [1..(h * (w + 1) - 1) -> CellChars]} : w \in 1..MaxW, h \in 1..MaxH}

Paths == SeqsUpTo(Letters, MaxPath)

TextElems == {PyChr("a"), PyChr("b")}
ListElems == {PyInt(1), PyInt(2), PyInt(12)}
Flags == {PyInt(0), PyInt(1), PyInt(2), PyInt(-1), PyBool(TRUE), PyBool(FALSE)}

SelectArgs ==
    {[kind |-> "str", items |-> t] : t \in SeqsUpTo(TextElems, MaxSeqLen)}
    \cup {[kind |-> "list", items |-> t] : t \in SeqsUpTo(ListElems, MaxSeqLen)}

Masks == SeqsUpTo(Flags, MaxSeqLen)

SelInit ==
    /\ sx = [kind |-> "str", items |-> <<>>]
    /\ smask = <<>>
    /\ matches = <<>>
    /\ sret = SelNoCall

GridInit(texts) ==
    /\ grid \in texts
    /\ width = InitWidth(grid)
    /\ height = InitHeight(grid)
    /\ call = NoCall
    /\ ret = None
    /\ pc = "idle"
    /\ ch = <<>>
    /\ rest = <<>>
    /\ width0 = width
    /\ height0 = height
    /\ moves = 0

Init == GridInit(RectTexts) /\ SelInit

SelectInit == GridInit({<<"X">>}) /\ SelInit

\* ---------------------------------------------------------------- actions
\* A call is made on a grid with no result pending.  grab, find_grid_item,
\* swipe and look leave the StringGrid as it is, so the only continuation
\* that reaches a new grid is the caller wrapping the text swipe returned.
Grab ==
    /\ pc = "idle"
    /\ call.op = "none"
    /\ \E x \in (0 - width - 1)..(width + 1), y \in (0 - height - 1)..(height + 1) :
        /\ call' = [NoCall EXCEPT !.op = "grab", !.x = x, !.y = y]
        /\ ret' = grab(self, x, y)
    /\ UNCHANGED <<grid, width, height, pc, ch, rest, width0, height0, moves>>
    /\ UNCHANGED selvars

Find ==
    /\ pc = "idle"
    /\ call.op = "none"
    /\ \E c \in SearchChars :
        /\ call' = [NoCall EXCEPT !.op = "find_grid_item", !.c = c]
        /\ ret' = find_grid_item(self, c)
    /\ UNCHANGED <<grid, width, height, pc, ch, rest, width0, height0, moves>>
    /\ UNCHANGED selvars

Swipe ==
    /\ pc = "idle"
    /\ call.op = "none"
    /\ \E c \in SearchChars, d \in Directions, b \in FillChars :
        /\ call' = [NoCall EXCEPT !.op = "swipe", !.c = c, !.d = d, !.fill = b]
        /\ ret' = swipe(self, c, d, b)
    /\ UNCHANGED <<grid, width, height, pc, ch, rest, width0, height0, moves>>
    /\ UNCHANGED selvars

\* The caller wraps the grid text swipe returned: StringGrid(result).
Rewrap ==
    /\ pc = "idle"
    /\ call.op = "swipe"
    /\ ret.kind = "str"
    /\ ret # OOB
    /\ grid' = ret.str
    /\ width' = InitWidth(ret.str)
    /\ height' = InitHeight(ret.str)
    /\ call' = NoCall
    /\ ret' = None
    /\ moves' = IF moves < MaxMoves THEN moves + 1 ELSE moves
    /\ UNCHANGED <<pc, ch, rest, width0, height0>>
    /\ UNCHANGED selvars

\* look, line 272: ch = list(find_grid_item(x, character))
LookCall ==
    /\ pc = "idle"
    /\ call.op = "none"
    /\ \E c \in SearchChars, p \in Paths :
        LET item == find_grid_item(self, c) IN
        /\ call' = [NoCall EXCEPT !.op = "look", !.c = c, !.path = p]
        /\ IF item.kind = "tuple"
           THEN /\ pc' = "look"
                /\ ch' = item.tup
                /\ rest' = p
                /\ ret' = None
           ELSE /\ pc' = "idle"
                /\ ch' = <<>>
                /\ rest' = <<>>
                /\ ret' = IF item.kind = "none" THEN Raise("TypeError") ELSE item
    /\ UNCHANGED <<grid, width, height, width0, height0, moves>>
    /\ UNCHANGED selvars

\* look, lines 274-284: one iteration of the loop over lookwhere.
LookStep ==
    /\ pc = "look"
    /\ rest # <<>>
    /\ IF Head(rest) \in {"U", "D", "L", "R"}
       THEN /\ ch' = step(ch, Head(rest))
            /\ rest' = Tail(rest)
            /\ pc' = "look"
            /\ ret' = ret
       ELSE /\ ch' = <<>>
            /\ rest' = <<>>
            /\ pc' = "idle"
            /\ ret' = Raise("ValueError")
    /\ UNCHANGED <<grid, width, height, call, width0, height0, moves>>
    /\ UNCHANGED selvars

\* look, lines 285-288: the bounds check and the read.
LookReturn ==
    /\ pc = "look"
    /\ rest = <<>>
    /\ ret' = lookResult(self, ch)
    /\ pc' = "idle"
    /\ ch' = <<>>
    /\ UNCHANGED <<grid, width, height, call, rest, width0, height0, moves>>
    /\ UNCHANGED selvars

\* The grid and the calls that read or move its cells.
GridNext ==
    \/ Grab
    \/ Find
    \/ Swipe
    \/ Rewrap

GridSpec == Init /\ [][GridNext]_vars

\* look, walking its path letter by letter.
LookNext ==
    \/ LookCall
    \/ LookStep
    \/ LookReturn

LookSpec == Init /\ [][LookNext]_vars

\* Every call on the grid.
Next ==
    \/ GridNext
    \/ LookNext

Spec == Init /\ [][Next]_vars

\* select(x, matches) called with a sequence and a mask.
Select ==
    /\ sret.kind = "nocall"
    /\ \E x \in SelectArgs, m \in Masks :
        /\ sx' = x
        /\ smask' = m
        /\ matches' = maskAfter(x, m)
        /\ sret' = select(x, m)
    /\ UNCHANGED gridvars

SelectNext == Select

SelectSpec == SelectInit /\ [][SelectNext]_vars

\* ================================================================ claims
\* What the claims speak of, stated on the grid text itself.
InGrid(col, row) == col >= 0 /\ col < width /\ row >= 0 /\ row < height
TextIndex(col, row) == row * (width + 1) + col + 1
Cell(col, row) == grid[TextIndex(col, row)]
Occurrences(c) == {p \in (0..(width - 1)) \X (0..(height - 1)) : Cell(p[1], p[2]) = c}
FirstRowMajor(c) ==
    CHOOSE p \in Occurrences(c) :
        \A q \in Occurrences(c) : p[2] < q[2] \/ (p[2] = q[2] /\ p[1] <= q[1])
Delta(d) ==
    CASE d = "left" -> <<-1, 0>>
      [] d = "right" -> <<1, 0>>
      [] d = "up" -> <<0, -1>>
      [] d = "down" -> <<0, 1>>
Adjacent(c, d) == <<FirstRowMajor(c)[1] + Delta(d)[1], FirstRowMajor(c)[2] + Delta(d)[2]>>
CountOf(t, c) == Cardinality({i \in 1..Len(t) : t[i] = c})
MovedText(c, d, fill) ==
    [i \in 1..Len(grid) |->
        IF i = TextIndex(Adjacent(c, d)[1], Adjacent(c, d)[2]) THEN c
        ELSE IF i = TextIndex(FirstRowMajor(c)[1], FirstRowMajor(c)[2]) THEN fill
        ELSE grid[i]]
PlainDirections == {"left", "right", "up", "down"}
SwipeOn(c) == call.op = "swipe" /\ call.c = c /\ Occurrences(c) # {}

\* C1: a swipe of a present character towards an adjacent cell inside the
\* grid returns the original text with the located cell holding the fill
\* character and the adjacent cell in that direction holding the moved
\* character, every other cell unchanged and the character count conserved.
C1_SwipeMovesToAdjacent ==
    \A c \in SearchChars, d \in PlainDirections :
        (SwipeOn(c) /\ call.d = d /\ InGrid(Adjacent(c, d)[1], Adjacent(c, d)[2]))
        => /\ ret = Str(MovedText(c, d, call.fill))
           /\ (c # call.fill /\ Cell(Adjacent(c, d)[1], Adjacent(c, d)[2]) # c
                 => CountOf(ret.str, c) = CountOf(grid, c))

\* C2: a swipe whose one-cell displacement from the located (column, row)
\* leaves the declared width or height returns "OOB", and the StringGrid's
\* text, width and height are unchanged.
C2_SwipeOutOfBounds ==
    [][\A c \in SearchChars, d \in PlainDirections :
        (call.op = "none" /\ call'.op = "swipe" /\ call'.c = c /\ call'.d = d
           /\ Occurrences(c) # {} /\ ~InGrid(Adjacent(c, d)[1], Adjacent(c, d)[2]))
        => (ret' = OOB /\ grid' = grid /\ width' = width /\ height' = height)]_vars

\* C3: after any sequence of swipes that each return a grid text, each
\* result re-wrapped with StringGrid, the width and the height are those of
\* the original grid.
C3_RoundTripDimensions == width = width0 /\ height = height0

C3_Witness == moves >= 2 /\ width # height /\ call.op = "none"

\* C4: find_grid_item returns the (column, row) of the first occurrence in
\* row-major order, and None exactly when the character occurs nowhere.
C4_FindFirstRowMajor ==
    call.op = "find_grid_item"
    => IF Occurrences(call.c) = {} THEN ret = None
       ELSE ret = Tuple(FirstRowMajor(call.c)[1], FirstRowMajor(call.c)[2])

C4_Witness ==
    /\ call.op = "find_grid_item"
    /\ Cardinality(Occurrences(call.c)) >= 2
    /\ ret.kind = "tuple"
    /\ ret.tup[1] # ret.tup[2]

\* C5: grab(col, row) fails with an out-of-range error for every coordinate
\* with a negative col or row, or col >= width, or row >= height, and
\* returns a character only for 0 <= col < width and 0 <= row < height.
C5_GrabOutOfRange ==
    call.op = "grab"
    => IF InGrid(call.x, call.y) THEN ret = Str(<<Cell(call.x, call.y)>>)
       ELSE ret = Raise("IndexError")

\* The coordinate look ends on: the start plus the net displacement.
LookDone(c) ==
    /\ call.op = "look" /\ pc = "idle" /\ call.c = c
    /\ Occurrences(c) # {}
    /\ \A i \in 1..Len(call.path) : call.path[i] \in {"U", "D", "L", "R"}
Net(path, a, b) ==
    CountOf(path, a) - CountOf(path, b)
FinalOf(c, path) ==
    <<FirstRowMajor(c)[1] + Net(path, "R", "L"), FirstRowMajor(c)[2] + Net(path, "D", "U")>>

\* C6: for a path over U, D, L, R look never raises: it returns the
\* character at the final coordinate when that is a cell of the grid and
\* "OOB" when it is not, column == width and row == height included.
C6_LookNeverRaises ==
    \A c \in SearchChars :
        LookDone(c)
        => /\ ret.kind # "raise"
           /\ ret = IF InGrid(FinalOf(c, call.path)[1], FinalOf(c, call.path)[2])
                    THEN Str(<<Cell(FinalOf(c, call.path)[1], FinalOf(c, call.path)[2])>>)
                    ELSE OOB

\* C7: look checks bounds only once the path is consumed: when the final
\* coordinate is a cell of the grid, look returns the character there, even
\* when positions along the path lie outside the grid; the result depends
\* only on the net displacement.
C7_LookFinalPositionOnly ==
    \A c \in SearchChars :
        (LookDone(c) /\ InGrid(FinalOf(c, call.path)[1], FinalOf(c, call.path)[2]))
        => ret = Str(<<Cell(FinalOf(c, call.path)[1], FinalOf(c, call.path)[2])>>)

C7_Witness ==
    \E c \in SearchChars :
        /\ LookDone(c)
        /\ InGrid(FinalOf(c, call.path)[1], FinalOf(c, call.path)[2])
        /\ \E k \in 1..(Len(call.path) - 1) :
              ~InGrid(FinalOf(c, SubSeq(call.path, 1, k))[1],
                      FinalOf(c, SubSeq(call.path, 1, k))[2])
        /\ ret.kind = "str"

\* The elements of x whose flag is truthy, in order.
Truthy(flag) == flag.n # 0
RECURSIVE Picked(_, _)
Picked(items, mask) ==
    IF items = <<>> THEN <<>>
    ELSE (IF Truthy(Head(mask)) THEN <<Head(items)>> ELSE <<>>)
         \o Picked(Tail(items), Tail(mask))

\* C8: for a mask of the length of x, select returns exactly the elements
\* whose flag is truthy, in order and with their values, in the container
\* kind of x.
C8_SelectByMask ==
    (sret.kind # "nocall" /\ Len(smask) = Len(sx.items))
    => sret = SelValue(sx.kind, Picked(sx.items, smask))

\* C9: when the mask's length differs from the length of x, select fails
\* with an error that is raised, not handed back as a return value.
C9_SelectLengthMismatchRaises ==
    (sret.kind # "nocall" /\ Len(smask) # Len(sx.items))
    => sret = SelRaise("IndexError")

\* C10: swipe is total on a rectangular grid holding the character, for
\* every direction word in any letter case: it ends with "OOB" or a grid
\* text and never raises an index error.
C10_SwipeTotal ==
    \A c \in SearchChars :
        (SwipeOn(c) /\ Lower(call.d) \in PlainDirections) => ret.kind = "str"

====
